---- MODULE Spec2Model ----
(***************************************************************************)
(* Citi Bike ETL: the schema normalisation and column-mapping engine of    *)
(* process_citibike_data_lambda.py and the parts of the orchestrator that  *)
(* call it.                                                                *)
(*                                                                         *)
(* Python strings are modelled as sequences of one-character strings, so   *)
(* that strip, lower, replace, prefix tests and regular-expression         *)
(* searches are computed character by character.  Python dicts are         *)
(* functions whose domain is the set of keys.                              *)
(***************************************************************************)
EXTENDS Integers, Sequences, FiniteSets, TLC

VARIABLES
    schema_dict,   \* the registry object threaded through update calls
    clock,         \* datetime.now(): the current year and a logical timestamp
    last_call,     \* history: the most recent update call and the registry before it
    base_name,     \* a raw column name and ...
    variant,       \* ... a respelling of it obtained by edits
    inner_edits,   \* whether an edit touched whitespace inside the name
    edit_count,    \* how many edits made the respelling
    filename,      \* the identifier handed to extract_metadata_from_filename
    extracted,     \* what that call produced
    tr_df,         \* the dataset handed to transform_data
    tr_md,         \* the file metadata handed to it
    tr_out,        \* what transform_data produced
    pc,            \* where lambda_handler is: start, loop, returned, raised
    event,         \* the event it was invoked with
    stored,        \* the registry object in S3, or NoObject
    object_body,   \* what the data objects of the bucket hold
    files,         \* files_to_process
    idx,           \* position of the loop in files_to_process
    processed_files, \* the handler's list of the same name
    steps,         \* history: the registry and file operations, in order
    file_log,      \* history: what happened to each file attempted
    response,      \* what lambda_handler returned, or the exception it raised
    process_result, \* what process_citibike_files made of it
    st_df,         \* a Jersey City dataset with its station-name columns
    st_log,        \* history: the dataset after each run of the prefix step
    orch_pc,       \* where the orchestrator's lambda_handler is
    urls,          \* the URL list it works through
    trigger_crawler, \* event.get('trigger_crawler', True)
    url_idx,       \* position of its loop in urls
    stage,         \* file_result, unzip_result, process_result, cleanup_result of this URL
    results,       \* the handler's list of the same name
    bucket,        \* the keys of the objects in SOURCE_BUCKET
    attempts,      \* history: the stage calls made, in order
    crawler_calls  \* history: how many times trigger_glue_crawler was called

regVars  == <<schema_dict, clock, last_call>>
normVars == <<base_name, variant, inner_edits, edit_count>>
extVars  == <<filename, extracted>>
trVars   == <<tr_df, tr_md, tr_out>>
batchVars == <<pc, event, stored, object_body, files, idx, processed_files,
               steps, file_log, response, process_result>>
prefixVars == <<st_df, st_log>>
orchVars == <<orch_pc, urls, trigger_crawler, url_idx, stage, results, bucket,
              attempts, crawler_calls>>
vars     == <<schema_dict, clock, last_call, base_name, variant, inner_edits, edit_count,
              filename, extracted, tr_df, tr_md, tr_out,
              pc, event, stored, object_body, files, idx, processed_files,
              steps, file_log, response, process_result,
              st_df, st_log,
              orch_pc, urls, trigger_crawler, url_idx, stage, results, bucket,
              attempts, crawler_calls>>

----------------------------------------------------------------------------
(* Python values *)

\* None: a value different from every string, the empty string included.
None == <<"<None>">>

\* Python truthiness of an optional string: None and '' are falsy.
Truthy(v) == v # None /\ v # <<>>

\* str(v) as an f-string formats it.
PyStr(v) == IF v = None THEN <<"N","o","n","e">> ELSE v

EmptyDict == <<>>

Keys(d) == DOMAIN d

\* d[k] = v on a dict.
DictSet(d, k, v) == [x \in (DOMAIN d) \cup {k} |-> IF x = k THEN v ELSE d[x]]

UpperCase == <<"A","B","C","D","E","F","G","H","I","J","K","L","M",
               "N","O","P","Q","R","S","T","U","V","W","X","Y","Z">>
LowerCase == <<"a","b","c","d","e","f","g","h","i","j","k","l","m",
               "n","o","p","q","r","s","t","u","v","w","x","y","z">>

\* The ASCII characters str.strip() removes and str.isspace() accepts.
Whitespace == {" ", "\t", "\n", "\r", "\f"}

LowerChar(c) ==
    IF \E i \in DOMAIN UpperCase : UpperCase[i] = c
    THEN LowerCase[CHOOSE i \in DOMAIN UpperCase : UpperCase[i] = c]
    ELSE c

\* str.lower()
Lower(s) == [i \in DOMAIN s |-> LowerChar(s[i])]

RECURSIVE LStrip(_)
LStrip(s) == IF s # <<>> /\ Head(s) \in Whitespace THEN LStrip(Tail(s)) ELSE s

RECURSIVE RStrip(_)
RStrip(s) ==
    IF s # <<>> /\ s[Len(s)] \in Whitespace
    THEN RStrip(SubSeq(s, 1, Len(s) - 1))
    ELSE s

\* str.strip()
Strip(s) == RStrip(LStrip(s))

\* str.startswith(p)
StartsWith(s, p) == Len(s) >= Len(p) /\ SubSeq(s, 1, Len(p)) = p

\* str.endswith(p)
EndsWith(s, p) == Len(s) >= Len(p) /\ SubSeq(s, Len(s) - Len(p) + 1, Len(s)) = p

\* p in s
Contains(s, p) == \E i \in 1..(Len(s) - Len(p) + 1) : SubSeq(s, i, i + Len(p) - 1) = p

\* str.replace(old, new) for a non-empty old: leftmost, non-overlapping.
RECURSIVE Replace(_, _, _)
Replace(s, old, new) ==
    IF s = <<>> THEN <<>>
    ELSE IF StartsWith(s, old)
         THEN new \o Replace(SubSeq(s, Len(old) + 1, Len(s)), old, new)
         ELSE <<Head(s)>> \o Replace(Tail(s), old, new)

----------------------------------------------------------------------------
(* Column Normalizer: normalize_column_name *)

nyc_mapping ==
    (<<"t","r","i","p","d","u","r","a","t","i","o","n">>
       :> <<"t","r","i","p","_","d","u","r","a","t","i","o","n">>) @@
    (<<"s","t","a","r","t","t","i","m","e">>
       :> <<"s","t","a","r","t","_","t","i","m","e">>) @@
    (<<"s","t","o","p","t","i","m","e">>
       :> <<"s","t","o","p","_","t","i","m","e">>) @@
    (<<"s","t","a","r","t","_","s","t","a","t","i","o","n","_","n","a","m","e">>
       :> <<"s","t","a","r","t","_","s","t","a","t","i","o","n","_","n","a","m","e">>) @@
    (<<"e","n","d","_","s","t","a","t","i","o","n","_","n","a","m","e">>
       :> <<"e","n","d","_","s","t","a","t","i","o","n","_","n","a","m","e">>) @@
    (<<"s","t","a","r","t","_","s","t","a","t","i","o","n","_","i","d">>
       :> <<"s","t","a","r","t","_","s","t","a","t","i","o","n","_","i","d">>) @@
    (<<"e","n","d","_","s","t","a","t","i","o","n","_","i","d">>
       :> <<"e","n","d","_","s","t","a","t","i","o","n","_","i","d">>) @@
    (<<"s","t","a","r","t","_","l","a","t">>
       :> <<"s","t","a","r","t","_","l","a","t","i","t","u","d","e">>) @@
    (<<"s","t","a","r","t","_","l","n","g">>
       :> <<"s","t","a","r","t","_","l","o","n","g","i","t","u","d","e">>) @@
    (<<"e","n","d","_","l","a","t">>
       :> <<"e","n","d","_","l","a","t","i","t","u","d","e">>) @@
    (<<"e","n","d","_","l","n","g">>
       :> <<"e","n","d","_","l","o","n","g","i","t","u","d","e">>) @@
    (<<"b","i","k","e","i","d">>
       :> <<"b","i","k","e","_","i","d">>) @@
    (<<"u","s","e","r","t","y","p","e">>
       :> <<"u","s","e","r","_","t","y","p","e">>) @@
    (<<"b","i","r","t","h","_","y","e","a","r">>
       :> <<"b","i","r","t","h","_","y","e","a","r">>) @@
    (<<"g","e","n","d","e","r">>
       :> <<"g","e","n","d","e","r">>) @@
    (<<"m","e","m","b","e","r","_","c","a","s","u","a","l">>
       :> <<"m","e","m","b","e","r","_","t","y","p","e">>) @@
    (<<"r","i","d","e","a","b","l","e","_","t","y","p","e">>
       :> <<"r","i","d","e","a","b","l","e","_","t","y","p","e">>) @@
    (<<"s","t","a","r","t","e","d","_","a","t">>
       :> <<"s","t","a","r","t","_","t","i","m","e">>) @@
    (<<"e","n","d","e","d","_","a","t">>
       :> <<"s","t","o","p","_","t","i","m","e">>) @@
    (<<"s","t","a","r","t","_","s","t","a","t","i","o","n","_","l","a","t","i","t","u","d","e">>
       :> <<"s","t","a","r","t","_","l","a","t","i","t","u","d","e">>) @@
    (<<"s","t","a","r","t","_","s","t","a","t","i","o","n","_","l","o","n","g","i","t","u","d","e">>
       :> <<"s","t","a","r","t","_","l","o","n","g","i","t","u","d","e">>) @@
    (<<"e","n","d","_","s","t","a","t","i","o","n","_","l","a","t","i","t","u","d","e">>
       :> <<"e","n","d","_","l","a","t","i","t","u","d","e">>) @@
    (<<"e","n","d","_","s","t","a","t","i","o","n","_","l","o","n","g","i","t","u","d","e">>
       :> <<"e","n","d","_","l","o","n","g","i","t","u","d","e">>) @@
    (<<"s","t","a","t","i","o","n","_","i","d">>
       :> <<"s","t","a","r","t","_","s","t","a","t","i","o","n","_","i","d">>) @@
    (<<"n","a","m","e">>
       :> <<"s","t","a","r","t","_","s","t","a","t","i","o","n","_","n","a","m","e">>)

jc_mapping ==
    (<<"t","r","i","p","d","u","r","a","t","i","o","n">>
       :> <<"t","r","i","p","_","d","u","r","a","t","i","o","n">>) @@
    (<<"s","t","a","r","t","t","i","m","e">>
       :> <<"s","t","a","r","t","_","t","i","m","e">>) @@
    (<<"s","t","o","p","t","i","m","e">>
       :> <<"s","t","o","p","_","t","i","m","e">>) @@
    (<<"s","t","a","r","t","_","s","t","a","t","i","o","n","_","n","a","m","e">>
       :> <<"s","t","a","r","t","_","s","t","a","t","i","o","n","_","n","a","m","e">>) @@
    (<<"e","n","d","_","s","t","a","t","i","o","n","_","n","a","m","e">>
       :> <<"e","n","d","_","s","t","a","t","i","o","n","_","n","a","m","e">>) @@
    (<<"s","t","a","r","t","_","s","t","a","t","i","o","n","_","i","d">>
       :> <<"s","t","a","r","t","_","s","t","a","t","i","o","n","_","i","d">>) @@
    (<<"e","n","d","_","s","t","a","t","i","o","n","_","i","d">>
       :> <<"e","n","d","_","s","t","a","t","i","o","n","_","i","d">>) @@
    (<<"s","t","a","r","t","_","l","a","t">>
       :> <<"s","t","a","r","t","_","l","a","t","i","t","u","d","e">>) @@
    (<<"s","t","a","r","t","_","l","n","g">>
       :> <<"s","t","a","r","t","_","l","o","n","g","i","t","u","d","e">>) @@
    (<<"e","n","d","_","l","a","t">>
       :> <<"e","n","d","_","l","a","t","i","t","u","d","e">>) @@
    (<<"e","n","d","_","l","n","g">>
       :> <<"e","n","d","_","l","o","n","g","i","t","u","d","e">>) @@
    (<<"b","i","k","e","i","d">>
       :> <<"b","i","k","e","_","i","d">>) @@
    (<<"u","s","e","r","t","y","p","e">>
       :> <<"u","s","e","r","_","t","y","p","e">>) @@
    (<<"b","i","r","t","h","_","y","e","a","r">>
       :> <<"b","i","r","t","h","_","y","e","a","r">>) @@
    (<<"g","e","n","d","e","r">>
       :> <<"g","e","n","d","e","r">>) @@
    (<<"m","e","m","b","e","r","_","c","a","s","u","a","l">>
       :> <<"m","e","m","b","e","r","_","t","y","p","e">>) @@
    (<<"r","i","d","e","a","b","l","e","_","t","y","p","e">>
       :> <<"r","i","d","e","a","b","l","e","_","t","y","p","e">>) @@
    (<<"s","t","a","r","t","e","d","_","a","t">>
       :> <<"s","t","a","r","t","_","t","i","m","e">>) @@
    (<<"e","n","d","e","d","_","a","t">>
       :> <<"s","t","o","p","_","t","i","m","e">>) @@
    (<<"s","t","a","r","t","_","s","t","a","t","i","o","n","_","l","a","t","i","t","u","d","e">>
       :> <<"s","t","a","r","t","_","l","a","t","i","t","u","d","e">>) @@
    (<<"s","t","a","r","t","_","s","t","a","t","i","o","n","_","l","o","n","g","i","t","u","d","e">>
       :> <<"s","t","a","r","t","_","l","o","n","g","i","t","u","d","e">>) @@
    (<<"e","n","d","_","s","t","a","t","i","o","n","_","l","a","t","i","t","u","d","e">>
       :> <<"e","n","d","_","l","a","t","i","t","u","d","e">>) @@
    (<<"e","n","d","_","s","t","a","t","i","o","n","_","l","o","n","g","i","t","u","d","e">>
       :> <<"e","n","d","_","l","o","n","g","i","t","u","d","e">>) @@
    (<<"s","t","a","t","i","o","n","_","i","d">>
       :> <<"s","t","a","r","t","_","s","t","a","t","i","o","n","_","i","d">>) @@
    (<<"n","a","m","e">>
       :> <<"s","t","a","r","t","_","s","t","a","t","i","o","n","_","n","a","m","e">>)

REGION_NYC == <<"n","y","c">>
REGION_JC  == <<"j","c">>

\* normalize_column_name(column_name, region): spaces become underscores, one
\* for one; then the region's alias table, else the name as it is.  The
\* function itself neither lowercases nor trims: its callers do.
normalize_column_name(column_name, region) ==
    LET normalized == Replace(column_name, <<" ">>, <<"_">>)
        mapping    == IF region = REGION_NYC THEN nyc_mapping ELSE jc_mapping
    IN  IF normalized \in DOMAIN mapping THEN mapping[normalized] ELSE normalized

\* The same without the call of lower().
column_key_not_lowered(column) == Strip(column)

\* column.strip().lower(): the key under which update and transform look a
\* raw column name up.
column_key(column) == Lower(Strip(column))

----------------------------------------------------------------------------
(* Datasets and file metadata *)

\* A dataframe is the sequence of its columns, each with its label, its
\* dtype as str(dtype) prints it, and its cell values, one per row.
Labels(df) == [i \in DOMAIN df |-> df[i].name]

\* How many columns of df carry this label.  df[label] is a Series only when
\* the label is unique; with a repeated label it is a DataFrame.
LabelCount(df, label) == Cardinality({i \in DOMAIN df : df[i].name = label})

\* x in list
InList(list, x) == \E i \in DOMAIN list : list[i] = x

Y2021 == <<"2","0","2","1">>
M01   == <<"0","1">>

----------------------------------------------------------------------------
(* Schema Registry: load_existing_schema's fresh registry and              *)
(* update_schema_with_new_columns                                          *)

\* The registry load_existing_schema returns when nothing could be loaded.
empty_schema(now) ==
    [columns         |-> EmptyDict,
     column_mappings |-> EmptyDict,
     sources         |-> EmptyDict,
     last_updated    |-> now.stamp]

\* f"{region}_{year}", then f"_{month}" when month is truthy.
source_key_of(region, year, month) ==
    LET k == PyStr(region) \o <<"_">> \o PyStr(year)
    IN  IF Truthy(month) THEN k \o <<"_">> \o PyStr(month) ELSE k

\* The same with the test of line 179 left out: sources starts empty on
\* every call.
ensure_sources_resetting(sd) == DictSet(sd, "sources", EmptyDict)

\* Lines 179-180: the sources dict is created only when the key is missing.
ensure_sources(sd) ==
    IF "sources" \in DOMAIN sd THEN sd ELSE DictSet(sd, "sources", EmptyDict)

\* Lines 182-188: the entry of this source is created only when missing.
ensure_source_entry(sd, source_key, year, month, region) ==
    IF source_key \in Keys(sd.sources) THEN sd
    ELSE [sd EXCEPT !.sources = DictSet(@, source_key,
             [year |-> year, month |-> month, region |-> region, columns |-> <<>>])]

\* Lines 196-197: the column is appended to its source's list once.
record_source_column(sd, source_key, column_name) ==
    LET src == sd.sources[source_key]
    IN  IF InList(src.columns, column_name) THEN sd
        ELSE [sd EXCEPT !.sources = DictSet(@, source_key,
                 [src EXCEPT !.columns = Append(@, column_name)])]

\* The same with the membership test of line 200 left out: the entry and the
\* mapping are written on every call (last write wins).
record_column_overwriting(sd, column_name, data_type, year, month, region) ==
    LET normalized_name == normalize_column_name(column_name, region)
        sd1 == [sd EXCEPT !.columns = DictSet(@, column_name,
                   [data_type         |-> data_type,
                    first_seen_year   |-> year,
                    first_seen_month  |-> month,
                    first_seen_region |-> region,
                    normalized_name   |-> normalized_name])]
        sd2 == IF "column_mappings" \in DOMAIN sd1 THEN sd1
               ELSE DictSet(sd1, "column_mappings", EmptyDict)
    IN  [sd2 EXCEPT !.column_mappings = DictSet(@, column_name, normalized_name)]

\* Lines 200-215: a column that is not yet a key of columns gets its entry and
\* its mapping; a known column is left as it is.
record_column(sd, column_name, data_type, year, month, region) ==
    IF column_name \in Keys(sd.columns) THEN sd
    ELSE
    LET normalized_name == normalize_column_name(column_name, region)
        sd1 == [sd EXCEPT !.columns = DictSet(@, column_name,
                   [data_type         |-> data_type,
                    first_seen_year   |-> year,
                    first_seen_month  |-> month,
                    first_seen_region |-> region,
                    normalized_name   |-> normalized_name])]
        sd2 == IF "column_mappings" \in DOMAIN sd1 THEN sd1
               ELSE DictSet(sd1, "column_mappings", EmptyDict)
    IN  [sd2 EXCEPT !.column_mappings = DictSet(@, column_name, normalized_name)]

\* Lines 191-215: the loop over df.columns, from column i on.  The registry is
\* mutated in place, so an exception leaves the mutations made so far.
RECURSIVE update_columns(_, _, _, _, _, _, _)
update_columns(sd, df, i, source_key, year, month, region) ==
    IF i > Len(df) THEN [schema_dict |-> sd, exc |-> "none"]
    ELSE
    LET column      == df[i].name
        column_name == column_key(column)
    IN  IF LabelCount(df, column) > 1
        THEN \* df[column] is a DataFrame, which has no attribute dtype
             [schema_dict |-> sd, exc |-> "AttributeError"]
        ELSE
        LET data_type == df[i].dtype
            sd1 == record_source_column(sd, source_key, column_name)
        IN  IF "columns" \notin DOMAIN sd1
            THEN [schema_dict |-> sd1, exc |-> "KeyError"]
            ELSE update_columns(
                     record_column(sd1, column_name, data_type, year, month, region),
                     df, i + 1, source_key, year, month, region)

\* update_schema_with_new_columns(schema_dict, df, file_metadata), with the
\* value of datetime.now() as a parameter.
update_schema_with_new_columns(sd, df, file_metadata, now) ==
    LET month  == file_metadata.month
        region == file_metadata.region
        year   == IF Truthy(file_metadata.year) THEN file_metadata.year ELSE now.year
        source_key == source_key_of(region, year, month)
        sd1 == ensure_source_entry(ensure_sources(sd), source_key, year, month, region)
        r   == update_columns(sd1, df, 1, source_key, year, month, region)
    IN  IF r.exc # "none" THEN r
        ELSE [schema_dict |-> [r.schema_dict EXCEPT !.last_updated = now.stamp],
              exc |-> "none"]

----------------------------------------------------------------------------
(* Inputs of the registry specification *)

\* How many update calls a behaviour makes.
MaxCalls == 2

\* str(datetime.now().year): the year in which the calls are made.
NowYears == {<<"2","0","2","5">>, <<"2","0","2","6">>}

RawTripduration  == <<"t","r","i","p","d","u","r","a","t","i","o","n">>
RawTripDurationX == <<" ","T","r","i","p","D","u","r","a","t","i","o","n">>
RawStarttime     == <<"s","t","a","r","t","t","i","m","e">>
RawStartedAt     == <<"s","t","a","r","t","e","d","_","a","t">>
RawRideId        == <<"R","i","d","e"," ","I","D">>

Col(name, dtype, vals) == [name |-> name, dtype |-> dtype, vals |-> vals]

\* Columns a file may present: the same raw name with either dtype.
RegistryColumns ==
    { Col(n, t, <<>>) : n \in {RawTripduration, RawTripDurationX, RawStarttime},
                        t \in {"int64", "object"} }

\* Files of one column, and files of two: two different columns, two raw
\* spellings of one column, and one label twice.
RegistryFrames ==
    { <<c>> : c \in RegistryColumns } \cup
    { <<Col(RawTripduration, "int64", <<>>), Col(RawStarttime, "object", <<>>)>>,
      <<Col(RawStarttime, "int64", <<>>), Col(RawTripduration, "object", <<>>)>>,
      <<Col(RawTripDurationX, "object", <<>>), Col(RawTripduration, "int64", <<>>)>>,
      <<Col(RawTripduration, "int64", <<>>), Col(RawTripduration, "int64", <<>>)>> }

MetaAnnualNyc  == [year |-> Y2021, month |-> None, region |-> REGION_NYC, type |-> "annual"]
MetaMonthlyJc  == [year |-> Y2021, month |-> M01,  region |-> REGION_JC,  type |-> "monthly"]
MetaUnknownNyc == [year |-> None,  month |-> None, region |-> REGION_NYC, type |-> "unknown"]

RegistryMetadata == {MetaAnnualNyc, MetaMonthlyJc, MetaUnknownNyc}

\* A registry stored by an earlier version, without sources or column_mappings.
legacy_schema == [columns |-> EmptyDict, last_updated |-> 0]

NoCall == [called |-> FALSE]

RegIdle  == schema_dict = EmptyDict /\ clock = [year |-> <<>>, stamp |-> 0] /\ last_call = NoCall
NormIdle == base_name = <<>> /\ variant = <<>> /\ inner_edits = FALSE /\ edit_count = 0
ExtIdle  == filename = <<>> /\ extracted = [called |-> FALSE]
TrIdle   == tr_df = <<>> /\ tr_md = <<>> /\ tr_out = [called |-> FALSE]
BatchIdle ==
    /\ pc = "idle" /\ event = <<>> /\ stored = <<>> /\ object_body = <<>>
    /\ files = <<>> /\ idx = 0 /\ processed_files = <<>> /\ steps = <<>>
    /\ file_log = <<>> /\ response = <<>> /\ process_result = <<>>
PrefixIdle == st_df = <<>> /\ st_log = <<>>
OrchIdle ==
    /\ orch_pc = "idle" /\ urls = <<>> /\ trigger_crawler = FALSE /\ url_idx = 0
    /\ stage = <<>> /\ results = <<>> /\ bucket = {} /\ attempts = <<>>
    /\ crawler_calls = 0

----------------------------------------------------------------------------
(* SpecRegistry: update calls on a registry, in any order *)

InitRegistry ==
    /\ schema_dict \in {empty_schema([stamp |-> 0]), legacy_schema}
    /\ clock \in {[year |-> y, stamp |-> 0] : y \in NowYears}
    /\ last_call = NoCall
    /\ NormIdle /\ ExtIdle /\ TrIdle /\ BatchIdle /\ PrefixIdle /\ OrchIdle

Tick(now) == [now EXCEPT !.stamp = @ + 1]

Update(df, md) ==
    /\ clock.stamp < MaxCalls
    /\ LET r == update_schema_with_new_columns(schema_dict, df, md, Tick(clock))
       IN  /\ schema_dict' = r.schema_dict
           /\ last_call' = [called |-> TRUE, df |-> df, md |-> md,
                            before |-> schema_dict, exc |-> r.exc]
    /\ clock' = Tick(clock)
    /\ UNCHANGED <<normVars, extVars, trVars, batchVars, prefixVars, orchVars>>

NextRegistry ==
    \E df \in RegistryFrames, md \in RegistryMetadata : Update(df, md)

SpecRegistry == InitRegistry /\ [][NextRegistry]_vars

----------------------------------------------------------------------------
(* Properties of the registry *)

\* The dict under key k of a registry, empty when the registry lacks the key.
DictOf(sd, k) == IF k \in DOMAIN sd THEN sd[k] ELSE EmptyDict

RegistryDicts == {"columns", "column_mappings", "sources"}

\* C1: registry append-only.  Whatever the registry held before an update
\* call, and whatever columns and metadata the call is given (also when the
\* call raises part-way), every key of columns, column_mappings and sources
\* that was present before the call is present after it.
C1_RegistryAppendOnly ==
    last_call.called =>
        \A d \in RegistryDicts :
            Keys(DictOf(last_call.before, d)) \subseteq Keys(DictOf(schema_dict, d))

\* C1 witness: an update call on a registry that already had keys in all three
\* dicts, and that added a column and a source to it.
C1_Witness ==
    /\ last_call.called
    /\ \A d \in RegistryDicts : Keys(DictOf(last_call.before, d)) # {}
    /\ Keys(schema_dict.columns) # Keys(last_call.before.columns)
    /\ Keys(schema_dict.sources) # Keys(last_call.before.sources)

\* C2: first-seen-wins.  A raw column name that was a key of columns before an
\* update call keeps its whole entry (data_type, normalized_name,
\* first_seen_year/month/region) and its column_mappings value through the
\* call, whatever dtype and region the call presents it with.
C2_FirstSeenWins ==
    last_call.called =>
        \A k \in Keys(DictOf(last_call.before, "columns")) :
            /\ k \in Keys(schema_dict.columns)
            /\ schema_dict.columns[k] = last_call.before.columns[k]
            /\ k \in Keys(DictOf(last_call.before, "column_mappings")) =>
                   /\ k \in Keys(DictOf(schema_dict, "column_mappings"))
                   /\ schema_dict.column_mappings[k] = last_call.before.column_mappings[k]

\* C2 witness: a call that returned normally and presented a column already in
\* the registry with another dtype and from another region than recorded.
C2_Witness ==
    /\ last_call.called
    /\ last_call.exc = "none"
    /\ \E i \in DOMAIN last_call.df :
           LET k == column_key(last_call.df[i].name)
           IN  /\ k \in Keys(last_call.before.columns)
               /\ last_call.df[i].dtype # last_call.before.columns[k].data_type
               /\ last_call.md.region # last_call.before.columns[k].first_seen_region

----------------------------------------------------------------------------
(* SpecNormalize: respellings of a raw column name.  A raw name is respelled *)
(* one edit at a time: the case of a letter, whitespace around the name,     *)
(* whitespace inside it.                                                     *)

\* How many edits a respelling is away from the name it started as.
MaxEdits == 3

BaseNames ==
    { <<"r","i","d","e"," ","i","d">>,
      <<"n","a","m","e">>,
      <<"s","t","a","r","t"," ","l","a","t">> }

\* Whitespace put around or inside a name.
PadChars == {" ", "\t"}

IsUpper(c) == \E i \in DOMAIN UpperCase : UpperCase[i] = c
IsLower(c) == \E i \in DOMAIN LowerCase : LowerCase[i] = c

UpperChar(c) ==
    IF IsLower(c) THEN UpperCase[CHOOSE i \in DOMAIN LowerCase : LowerCase[i] = c] ELSE c

\* Position i holds whitespace with a non-blank character on either side.
IsInner(s, i) ==
    /\ s[i] \in Whitespace
    /\ \E j \in 1..(i - 1) : s[j] \notin Whitespace
    /\ \E j \in (i + 1)..Len(s) : s[j] \notin Whitespace

InsertAt(s, i, c) == SubSeq(s, 1, i) \o <<c>> \o SubSeq(s, i + 1, Len(s))
RemoveAt(s, i)    == SubSeq(s, 1, i - 1) \o SubSeq(s, i + 1, Len(s))

InitNormalize ==
    /\ base_name \in BaseNames
    /\ variant = base_name
    /\ inner_edits = FALSE
    /\ edit_count = 0
    /\ RegIdle /\ ExtIdle /\ TrIdle /\ BatchIdle /\ PrefixIdle /\ OrchIdle

Respell(s, inner) ==
    /\ edit_count < MaxEdits
    /\ variant' = s
    /\ inner_edits' = (inner_edits \/ inner)
    /\ edit_count' = edit_count + 1
    /\ UNCHANGED <<base_name, regVars, extVars, trVars, batchVars, prefixVars, orchVars>>

FlipCase ==
    \E i \in DOMAIN variant :
        /\ IsUpper(variant[i]) \/ IsLower(variant[i])
        /\ Respell([variant EXCEPT ![i] = IF IsUpper(@) THEN LowerChar(@) ELSE UpperChar(@)],
                   FALSE)

PadLeft  == \E c \in PadChars : Respell(<<c>> \o variant, FALSE)

PadRight == \E c \in PadChars : Respell(Append(variant, c), FALSE)

TrimLeft ==
    /\ variant # <<>> /\ Head(variant) \in Whitespace
    /\ Respell(Tail(variant), FALSE)

TrimRight ==
    /\ variant # <<>> /\ variant[Len(variant)] \in Whitespace
    /\ Respell(SubSeq(variant, 1, Len(variant) - 1), FALSE)

\* One more whitespace character next to whitespace inside the name.
WidenInner ==
    \E i \in DOMAIN variant, c \in PadChars :
        /\ IsInner(variant, i)
        /\ Respell(InsertAt(variant, i, c), TRUE)

\* One whitespace character fewer where the name has two in a row inside.
NarrowInner ==
    \E i \in DOMAIN variant :
        /\ IsInner(variant, i)
        /\ i < Len(variant) /\ variant[i + 1] \in Whitespace
        /\ Respell(RemoveAt(variant, i), TRUE)

\* Another kind of whitespace inside the name.
SwapInner ==
    \E i \in DOMAIN variant, c \in PadChars :
        /\ IsInner(variant, i)
        /\ variant[i] # c
        /\ Respell([variant EXCEPT ![i] = c], TRUE)

NextNormalize ==
    \/ FlipCase
    \/ PadLeft
    \/ PadRight
    \/ TrimLeft
    \/ TrimRight
    \/ WidenInner
    \/ NarrowInner
    \/ SwapInner

SpecNormalize == InitNormalize /\ [][NextNormalize]_vars

\* The canonical name update (lines 192, 201) and transform (lines 320, 325)
\* compute for a raw column name.
canonical_name(column, region) == normalize_column_name(column_key(column), region)

Regions == {REGION_NYC, REGION_JC}

----------------------------------------------------------------------------
(* Filename Metadata Extractor: extract_metadata_from_filename *)

\* The names bound in the global namespace of process_citibike_data_lambda
\* when one of its functions runs: the imports of lines 1-5, the constants of
\* lines 8-11 and the functions the module defines.
process_module_names ==
    { "boto3", "pd", "io", "json", "datetime",
      "SOURCE_BUCKET", "DESTINATION_BUCKET", "SCHEMA_KEY", "PROCESSED_DATA_PREFIX",
      "lambda_handler", "load_existing_schema", "extract_files_from_event",
      "list_unprocessed_files", "read_file_to_dataframe",
      "update_schema_with_new_columns", "normalize_column_name", "transform_data",
      "save_dataframe_to_s3", "save_schema_to_s3", "extract_metadata_from_filename",
      "generate_destination_key" }

\* Evaluating a global name that is not bound raises NameError.
NameBound(name) == name \in process_module_names

Digits == {"0","1","2","3","4","5","6","7","8","9"}

\* x where xs is the non-empty set of match positions: the leftmost one.
Leftmost(xs) == CHOOSE i \in xs : \A j \in xs : i <= j

\* os.path.basename(path): what follows the last '/'.
basename(path) ==
    LET slashes == {i \in DOMAIN path : path[i] = "/"}
    IN  IF slashes = {} THEN path
        ELSE SubSeq(path, (CHOOSE i \in slashes : \A j \in slashes : j <= i) + 1, Len(path))

\* (20\d{2}) matches at position i of s.
YearAt(s, i) ==
    /\ i >= 1 /\ i + 3 <= Len(s)
    /\ s[i] = "2" /\ s[i + 1] = "0"
    /\ s[i + 2] \in Digits /\ s[i + 3] \in Digits

\* (20\d{2})(\d{2}) matches at position i of s.
YearMonthAt(s, i) ==
    /\ YearAt(s, i)
    /\ i + 5 <= Len(s)
    /\ s[i + 4] \in Digits /\ s[i + 5] \in Digits

CITIBIKE_TRIPDATA == <<"-","c","i","t","i","b","i","k","e","-","t","r","i","p","d","a","t","a">>

JC_MARKER == <<"J","C","-">>

\* ^(20\d{2})-citibike-tripdata
AnnualMatch(s) == YearAt(s, 1) /\ StartsWith(SubSeq(s, 5, Len(s)), CITIBIKE_TRIPDATA)

\* ^(20\d{2})(\d{2})-citibike-tripdata
MonthlyMatch(s) == YearMonthAt(s, 1) /\ StartsWith(SubSeq(s, 7, Len(s)), CITIBIKE_TRIPDATA)

NoMetadata == [year |-> None, month |-> None, region |-> <<>>, type |-> "none"]

\* extract_metadata_from_filename(filename): the metadata it returns, or the
\* exception it raises.  The first statement after the initial dict evaluates
\* the global name os.
extract_metadata_from_filename(name) ==
    IF ~NameBound("os") THEN [exc |-> "NameError", value |-> NoMetadata]
    ELSE
    LET base_filename == basename(name)
        is_jc     == Contains(base_filename, JC_MARKER)
        region    == IF is_jc THEN REGION_JC ELSE REGION_NYC
        base_part == IF is_jc THEN Replace(base_filename, JC_MARKER, <<>>) ELSE base_filename
        years     == {i \in DOMAIN base_part : YearAt(base_part, i)}
        months    == {i \in DOMAIN base_part : YearMonthAt(base_part, i)}
        metadata  ==
            IF AnnualMatch(base_part)
            THEN [year |-> SubSeq(base_part, 1, 4), month |-> None,
                  region |-> region, type |-> "annual"]
            ELSE IF MonthlyMatch(base_part)
            THEN [year |-> SubSeq(base_part, 1, 4), month |-> SubSeq(base_part, 5, 6),
                  region |-> region, type |-> "monthly"]
            ELSE IF years # {}
            THEN LET y == Leftmost(years)
                 IN  IF months # {}
                     THEN LET m == Leftmost(months)
                          IN  [year |-> SubSeq(base_part, y, y + 3),
                               month |-> SubSeq(base_part, m + 4, m + 5),
                               region |-> region, type |-> "monthly"]
                     ELSE [year |-> SubSeq(base_part, y, y + 3), month |-> None,
                           region |-> region, type |-> "annual"]
            ELSE [year |-> None, month |-> None, region |-> region, type |-> "unknown"]
    IN  [exc |-> "none", value |-> metadata]

----------------------------------------------------------------------------
(* SpecExtract: one call of extract_metadata_from_filename on an identifier *)

FILE_2021_ZIP      == <<"2","0","2","1","-","c","i","t","i","b","i","k","e","-","t","r","i","p","d","a","t","a",".","z","i","p">>
FILE_202101_ZIP    == <<"2","0","2","1","0","1","-","c","i","t","i","b","i","k","e","-","t","r","i","p","d","a","t","a",".","c","s","v",".","z","i","p">>
FILE_JC_202101_ZIP == <<"J","C","-","2","0","2","1","0","1","-","c","i","t","i","b","i","k","e","-","t","r","i","p","d","a","t","a",".","c","s","v",".","z","i","p">>
FILE_RANDOM        == <<"r","a","n","d","o","m","f","i","l","e",".","c","s","v">>

\* Identifiers put together from a directory, the Jersey City marker, a date
\* part, a suffix and an extension, and the identifiers the documentation of
\* the function names.
SampleFilenames ==
    { dir \o marker \o date \o suffix \o ext :
        dir    \in { <<>>, <<"r","e","s","u","l","t","_","f","i","l","e","s","/","2","0","2","1","-","x","/">> },
        marker \in { <<>>, JC_MARKER },
        date   \in { <<>>, <<"2","0","2","1">>, <<"2","0","2","1","0","1">>, <<"1","9","9","9">>, <<"2","0","2","1","1">>, <<"t","r","i","p","s","2","0","2","0">> },
        suffix \in { CITIBIKE_TRIPDATA, <<"_","t","r","i","p","d","a","t","a">> },
        ext    \in { <<".","z","i","p">>, <<".","c","s","v">>, <<".","c","s","v",".","z","i","p">> } }
    \cup { FILE_2021_ZIP, FILE_202101_ZIP, FILE_JC_202101_ZIP, FILE_RANDOM }

InitExtract ==
    /\ filename \in SampleFilenames
    /\ extracted = [called |-> FALSE]
    /\ RegIdle /\ NormIdle /\ TrIdle /\ BatchIdle /\ PrefixIdle /\ OrchIdle

Extract ==
    /\ ~extracted.called
    /\ LET r == extract_metadata_from_filename(filename)
       IN  extracted' = [called |-> TRUE, exc |-> r.exc, value |-> r.value]
    /\ UNCHANGED <<filename, regVars, normVars, trVars, batchVars, prefixVars, orchVars>>

NextExtract == Extract

SpecExtract == InitExtract /\ [][NextExtract]_vars

\* The identifier holds a four-digit year 20xx somewhere in its base name.
HasYear(name) ==
    LET b == Replace(basename(name), JC_MARKER, <<>>)
    IN  \E i \in DOMAIN b : YearAt(b, i)

\* C9: metadata extraction is total.  For every identifier the call returns a
\* FileMetadata without raising; when the identifier holds no year 20xx the
\* result is year absent, month absent, grain unknown, and region nyc unless
\* the Jersey City marker is present.
C9_ExtractionIsTotal ==
    extracted.called =>
        /\ extracted.exc = "none"
        /\ ~HasYear(filename) =>
               /\ extracted.value.year = None
               /\ extracted.value.month = None
               /\ extracted.value.type = "unknown"
               /\ extracted.value.region =
                      IF Contains(basename(filename), JC_MARKER) THEN REGION_JC ELSE REGION_NYC

Meta(year, month, region, type) ==
    [year |-> year, month |-> month, region |-> region, type |-> type]

\* C10: pattern order.  The call returns, and returns {2021, absent, nyc,
\* annual} for 2021-citibike-tripdata.zip, {2021, 01, nyc, monthly} for
\* 202101-citibike-tripdata.csv.zip and {2021, 01, jc, monthly} for
\* JC-202101-citibike-tripdata.csv.zip; in every result annual implies month
\* absent, monthly implies year and month present, and the grain is unknown
\* exactly when the year is absent.
C10_PatternOrder ==
    extracted.called =>
        /\ extracted.exc = "none"
        /\ filename = FILE_2021_ZIP =>
               extracted.value = Meta(Y2021, None, REGION_NYC, "annual")
        /\ filename = FILE_202101_ZIP =>
               extracted.value = Meta(Y2021, M01, REGION_NYC, "monthly")
        /\ filename = FILE_JC_202101_ZIP =>
               extracted.value = Meta(Y2021, M01, REGION_JC, "monthly")
        /\ extracted.value.type = "annual" => extracted.value.month = None
        /\ extracted.value.type = "monthly" =>
               extracted.value.year # None /\ extracted.value.month # None
        /\ extracted.value.type = "unknown" <=> extracted.value.year = None

----------------------------------------------------------------------------
(* Cell values.  A cell is a string, an integer, NaN, a timestamp or NaT. *)

StrV(s) == [kind |-> "str", s |-> s,    n |-> 0]
IntV(n) == [kind |-> "int", s |-> <<>>, n |-> n]
NaN     == [kind |-> "nan", s |-> <<>>, n |-> 0]
NaT     == [kind |-> "nat", s |-> <<>>, n |-> 0]
\* A timestamp, with the text or the number it was converted from.
TsV(s, n) == [kind |-> "ts", s |-> s, n |-> n]

DigitChars == <<"0","1","2","3","4","5","6","7","8","9">>

\* str(n) of a natural number.
RECURSIVE NatStr(_)
NatStr(n) ==
    IF n < 10 THEN <<DigitChars[n + 1]>>
    ELSE NatStr(n \div 10) \o <<DigitChars[(n % 10) + 1]>>

DigitValue(c) == (CHOOSE i \in DOMAIN DigitChars : DigitChars[i] = c) - 1

IsDigits(s) == s # <<>> /\ \A i \in DOMAIN s : s[i] \in Digits

\* int(s) of a string of digits.
RECURSIVE NatOf(_)
NatOf(s) ==
    IF s = <<>> THEN 0
    ELSE 10 * NatOf(SubSeq(s, 1, Len(s) - 1)) + DigitValue(s[Len(s)])

STR_NAN == <<"n","a","n">>
STR_NAT == <<"N","a","T">>

\* Series.astype(str) on one cell.
AsStr(v) ==
    CASE v.kind = "str" -> v.s
      [] v.kind = "int" -> NatStr(v.n)
      [] v.kind = "nan" -> STR_NAN
      [] v.kind = "nat" -> STR_NAT
      [] v.kind = "ts"  -> IF v.s # <<>> THEN v.s ELSE NatStr(v.n)

\* pd.to_numeric accepts the cell.
IsNumeric(v) ==
    \/ v.kind \in {"int", "nan"}
    \/ v.kind = "str" /\ (IsDigits(v.s) \/ v.s = STR_NAN)

\* pd.to_numeric on a cell it accepts.
ToNumeric(v) ==
    IF v.kind = "str"
    THEN IF v.s = STR_NAN THEN NaN ELSE IntV(NatOf(v.s))
    ELSE v

\* The strings pd.to_datetime parses, among the strings of the model: an ISO
\* date dddd-dd-dd.
IsDateText(s) ==
    /\ Len(s) = 10
    /\ s[5] = "-" /\ s[8] = "-"
    /\ \A i \in {1, 2, 3, 4, 6, 7, 9, 10} : s[i] \in Digits

\* pd.to_datetime(..., errors='coerce') on one cell: what cannot be parsed
\* becomes NaT.
ToDatetime(v) ==
    CASE v.kind = "str" -> IF IsDateText(v.s) THEN TsV(v.s, 0) ELSE NaT
      [] v.kind = "int" -> TsV(<<>>, v.n)
      [] v.kind = "nan" -> NaT
      [] v.kind = "nat" -> NaT
      [] v.kind = "ts"  -> v

----------------------------------------------------------------------------
(* Transform Engine: transform_data *)

START_STATION_ID   == <<"s","t","a","r","t","_","s","t","a","t","i","o","n","_","i","d">>
END_STATION_ID     == <<"e","n","d","_","s","t","a","t","i","o","n","_","i","d">>
START_STATION_NAME == <<"s","t","a","r","t","_","s","t","a","t","i","o","n","_","n","a","m","e">>
END_STATION_NAME   == <<"e","n","d","_","s","t","a","t","i","o","n","_","n","a","m","e">>
COL_REGION         == <<"r","e","g","i","o","n">>
COL_DATA_SOURCE    == <<"d","a","t","a","_","s","o","u","r","c","e">>
JERSEY_CITY        == <<"j","e","r","s","e","y","_","c","i","t","y">>
NEW_YORK           == <<"n","e","w","_","y","o","r","k">>
JC_PREFIX          == <<"J","C"," ","-"," ">>
JC_PLAIN           == <<"J","C">>

TimeKeywords ==
    { <<"t","i","m","e">>,
      <<"d","a","t","e">>,
      <<"s","t","a","r","t","e","d","_","a","t">>,
      <<"e","n","d","e","d","_","a","t">> }

HasLabel(df, label) == \E i \in DOMAIN df : df[i].name = label

\* The dtype of the only column with this label.
DtypeOf(df, label) == df[CHOOSE i \in DOMAIN df : df[i].name = label].dtype

RowCount(df) == IF df = <<>> THEN 0 ELSE Len(df[1].vals)

\* The same with an unregistered label left as it is, lowercased and trimmed.
rename_target_registered_only(col, sd, region) ==
    LET col_lower == column_key(col)
        mappings  == IF "column_mappings" \in DOMAIN sd THEN sd.column_mappings ELSE EmptyDict
    IN  IF col_lower \in Keys(mappings) THEN mappings[col_lower]
        ELSE col_lower

\* Lines 318-325: the target of a column's rename: the registry's mapping of
\* the lowercased, trimmed label when there is one, else a fresh
\* normalize_column_name.
rename_target(col, sd, region) ==
    LET col_lower == column_key(col)
        mappings  == IF "column_mappings" \in DOMAIN sd THEN sd.column_mappings ELSE EmptyDict
    IN  IF col_lower \in Keys(mappings) THEN mappings[col_lower]
        ELSE normalize_column_name(col_lower, region)

\* Line 328: df.rename(columns=column_mapping).  Every label is replaced by
\* its target; labels that end up equal are kept side by side.
rename_columns(df, sd, region) ==
    [i \in DOMAIN df |-> [df[i] EXCEPT !.name = rename_target(@, sd, region)]]

\* df[label] = column, for a label df has exactly once.
SetColumn(df, label, dtype, vals) ==
    [i \in DOMAIN df |->
        IF df[i].name = label THEN [df[i] EXCEPT !.dtype = dtype, !.vals = vals] ELSE df[i]]

\* df[label] = scalar: every column with the label is overwritten; a new
\* column is appended when there is none.
AssignScalar(df, label, v) ==
    LET vals == [r \in 1..RowCount(df) |-> v]
    IN  IF HasLabel(df, label)
        THEN [i \in DOMAIN df |->
                 IF df[i].name = label
                 THEN [df[i] EXCEPT !.dtype = "object", !.vals = vals] ELSE df[i]]
        ELSE Append(df, Col(label, "object", vals))

Ok(df)       == [exc |-> "none", df |-> df]
Raised(e, df) == [exc |-> e, df |-> df]

\* Lines 335-349: the station-id fix of one column.
fix_station_id(df, label) ==
    IF ~HasLabel(df, label) THEN Ok(df)
    ELSE IF LabelCount(df, label) > 1
    THEN Raised("AttributeError", df)     \* df[label] is a DataFrame: no dtype
    ELSE IF DtypeOf(df, label) # "object" THEN Ok(df)
    ELSE
    LET old      == df[CHOOSE i \in DOMAIN df : df[i].name = label].vals
        stripped == [r \in DOMAIN old |->
                        StrV(Replace(Replace(AsStr(old[r]), JC_MARKER, <<>>), JC_PLAIN, <<>>))]
    IN  IF \A r \in DOMAIN stripped : IsNumeric(stripped[r])
        THEN Ok(SetColumn(df, label,
                    IF \E r \in DOMAIN stripped : stripped[r].s = STR_NAN
                    THEN "float64" ELSE "int64",
                    [r \in DOMAIN stripped |-> ToNumeric(stripped[r])]))
        ELSE Ok(SetColumn(df, label, "object", stripped))

\* The same without the mask: every value is prefixed.
prefix_station_name_unmasked(df, label) ==
    IF ~HasLabel(df, label) THEN Ok(df)
    ELSE IF LabelCount(df, label) > 1
    THEN Raised("AttributeError", df)
    ELSE
    LET old == df[CHOOSE i \in DOMAIN df : df[i].name = label].vals
    IN  Ok(SetColumn(df, label, "object",
               [r \in DOMAIN old |-> StrV(JC_PREFIX \o AsStr(old[r]))]))

\* Lines 352-359: the station-name prefix of one column.
prefix_station_name(df, label) ==
    IF ~HasLabel(df, label) THEN Ok(df)
    ELSE IF LabelCount(df, label) > 1
    THEN Raised("AttributeError", df)     \* a DataFrame has no .str accessor
    ELSE
    LET old == df[CHOOSE i \in DOMAIN df : df[i].name = label].vals
    IN  Ok(SetColumn(df, label, "object",
               [r \in DOMAIN old |->
                   IF StartsWith(AsStr(old[r]), JC_PREFIX) THEN old[r]
                   ELSE StrV(JC_PREFIX \o AsStr(old[r]))]))

\* Lines 344-349, unless the statements before raised.
then_fix_end_id(r) ==
    IF r.exc # "none" THEN r ELSE fix_station_id(r.df, END_STATION_ID)

\* Lines 352-355, unless the statements before raised.
then_prefix_start_name(r) ==
    IF r.exc # "none" THEN r ELSE prefix_station_name(r.df, START_STATION_NAME)

\* Lines 357-359, unless the statements before raised.
then_prefix_end_name(r) ==
    IF r.exc # "none" THEN r ELSE prefix_station_name(r.df, END_STATION_NAME)

\* Line 362, unless the statements before raised.
then_region_jc(r) ==
    IF r.exc # "none" THEN r ELSE Ok(AssignScalar(r.df, COL_REGION, StrV(JERSEY_CITY)))

\* Lines 331-367: the region-specific part.
region_transform(df, region) ==
    IF region = REGION_JC
    THEN then_region_jc(then_prefix_end_name(then_prefix_start_name(
             then_fix_end_id(fix_station_id(df, START_STATION_ID)))))
    ELSE Ok(AssignScalar(df, COL_REGION, StrV(NEW_YORK)))

IsTimeColumn(label) == \E k \in TimeKeywords : Contains(Lower(label), k)

\* Lines 370-376: for col in df.columns, from position i on.  With a repeated
\* label pd.to_datetime is given a DataFrame and raises; the except clause
\* leaves the column as it is.
RECURSIVE convert_datetimes(_, _, _)
convert_datetimes(df, labels, i) ==
    IF i > Len(labels) THEN df
    ELSE
    LET col == labels[i]
    IN  IF IsTimeColumn(col) /\ LabelCount(df, col) = 1
        THEN LET old == df[CHOOSE j \in DOMAIN df : df[j].name = col].vals
             IN  convert_datetimes(
                     SetColumn(df, col, "datetime64[ns]",
                               [r \in DOMAIN old |-> ToDatetime(old[r])]),
                     labels, i + 1)
        ELSE convert_datetimes(df, labels, i + 1)

\* The same without the month of line 381.
data_source_without_month(file_metadata) ==
    PyStr(file_metadata.region) \o <<"_">> \o PyStr(file_metadata.year)

\* Lines 379-381: f"{region}_{file_metadata.get('year', 'unknown')}" and the
\* month when it is truthy.  The key 'year' is always present, so an absent
\* year is formatted as None.
data_source_of(file_metadata) ==
    LET k == PyStr(file_metadata.region) \o <<"_">> \o PyStr(file_metadata.year)
    IN  IF Truthy(file_metadata.month)
        THEN k \o <<"_">> \o PyStr(file_metadata.month) ELSE k

\* Lines 369-383, unless the statements before raised.
then_convert_and_tag(r, file_metadata) ==
    IF r.exc # "none" THEN r
    ELSE Ok(AssignScalar(convert_datetimes(r.df, Labels(r.df), 1),
                         COL_DATA_SOURCE, StrV(data_source_of(file_metadata))))

\* transform_data(df, schema_dict, file_metadata): the dataset it returns, or
\* the exception it raises.
transform_data(df, sd, file_metadata) ==
    then_convert_and_tag(
        region_transform(rename_columns(df, sd, file_metadata.region),
                         file_metadata.region),
        file_metadata)

----------------------------------------------------------------------------
(* SpecTransform: one file's dataset, registered or not, then transformed *)

TEXT_DATE       == <<"2","0","2","1","-","0","1","-","0","5">>
TEXT_NOT_A_DATE == <<"n","o","o","n">>

\* Datasets of one row.
TransformFrames ==
    { <<Col(<<"S","t","a","r","t"," ","S","t","a","t","i","o","n"," ","I","D">>, "int64", <<IntV(72)>>),
        Col(RawTripduration, "int64", <<IntV(300)>>)>>,
      <<Col(RawStarttime, "object", <<StrV(TEXT_DATE)>>),
        Col(RawStartedAt, "object", <<StrV(TEXT_NOT_A_DATE)>>)>>,
      <<Col(RawStarttime, "object", <<StrV(TEXT_DATE)>>)>>,
      <<Col(<<"s","t","o","p","t","i","m","e">>, "object", <<StrV(TEXT_NOT_A_DATE)>>),
        Col(<<"R","e","g","i","o","n">>, "object", <<StrV(<<"n","o","r","t","h">>)>>)>>,
      <<Col(<<"s","t","a","r","t"," ","s","t","a","t","i","o","n"," ","n","a","m","e">>, "object", <<StrV(<<"G","r","o","v","e"," ","S","t">>)>>),
        Col(<<"e","n","d"," ","s","t","a","t","i","o","n"," ","n","a","m","e">>, "object", <<StrV(<<"J","C"," ","-"," ","H","a","m","i","l","t","o","n"," ","P","a","r","k">>)>>)>>,
      <<Col(<<"s","t","a","r","t"," ","s","t","a","t","i","o","n"," ","i","d">>, "object", <<StrV(<<"J","C","-","3","1","8","6">>)>>),
        Col(<<"e","n","d"," ","s","t","a","t","i","o","n"," ","i","d">>, "object", <<StrV(<<"J","C","0","0","5","X">>)>>)>>,
      <<Col(<<"s","t","a","t","i","o","n","_","i","d">>, "int64", <<IntV(3186)>>),
        Col(<<"s","t","a","r","t","_","s","t","a","t","i","o","n","_","i","d">>, "object", <<StrV(<<"H","B","1","0","1">>)>>)>>,
      <<Col(<<"n","a","m","e">>, "object", <<NaN>>),
        Col(RawRideId, "object", <<StrV(<<"A","1">>)>>)>> }

InitTransform ==
    /\ tr_df \in TransformFrames
    /\ tr_md \in RegistryMetadata
    /\ tr_out = [called |-> FALSE]
    /\ schema_dict \in {empty_schema([stamp |-> 0]), legacy_schema}
    /\ clock \in {[year |-> y, stamp |-> 0] : y \in NowYears}
    /\ last_call = NoCall
    /\ NormIdle /\ ExtIdle /\ BatchIdle /\ PrefixIdle /\ OrchIdle

\* Line 51: the file's columns are registered before it is transformed.
Register ==
    /\ ~last_call.called /\ ~tr_out.called
    /\ LET r == update_schema_with_new_columns(schema_dict, tr_df, tr_md, Tick(clock))
       IN  /\ schema_dict' = r.schema_dict
           /\ last_call' = [called |-> TRUE, df |-> tr_df, md |-> tr_md,
                            before |-> schema_dict, exc |-> r.exc]
    /\ clock' = Tick(clock)
    /\ UNCHANGED <<tr_df, tr_md, tr_out, normVars, extVars, batchVars, prefixVars, orchVars>>

\* Line 54.
Transform ==
    /\ ~tr_out.called
    /\ LET r == transform_data(tr_df, schema_dict, tr_md)
       IN  tr_out' = [called |-> TRUE, exc |-> r.exc, df |-> r.df]
    /\ UNCHANGED <<tr_df, tr_md, regVars, normVars, extVars, batchVars, prefixVars, orchVars>>

NextTransform ==
    \/ Register
    \/ Transform

SpecTransform == InitTransform /\ [][NextTransform]_vars

\* Two columns of df with different labels and the same rename target.
Colliding(df, sd, region) ==
    \E i, j \in DOMAIN df :
        /\ df[i].name # df[j].name
        /\ rename_target(df[i].name, sd, region) = rename_target(df[j].name, sd, region)

\* Two columns of df carry the same label.
SharedLabel(df) == \E i, j \in DOMAIN df : i # j /\ df[i].name = df[j].name

\* C3: transform collision detection.  When two distinct columns of the
\* dataset have the same rename target, transform raises, and it never
\* returns a dataset in which two columns share a name.
C3_CollisionRaises ==
    (tr_out.called /\ Colliding(tr_df, schema_dict, tr_md.region)) =>
        /\ tr_out.exc # "none"
        /\ ~SharedLabel(tr_out.df)

\* The canonical names of the columns of df are pairwise distinct.
CanonicalDistinct(df, region) ==
    \A i, j \in DOMAIN df :
        i # j => canonical_name(df[i].name, region) # canonical_name(df[j].name, region)

\* The canonical names of the columns of df, in order, then 'region' and
\* 'data_source'.
CanonicalThenTags(df, region) ==
    [i \in DOMAIN df |-> canonical_name(df[i].name, region)]
        \o <<COL_REGION, COL_DATA_SOURCE>>

\* A column of df has the canonical name 'region' or 'data_source'.
ClashesWithTags(df, region) ==
    \E i \in DOMAIN df :
        canonical_name(df[i].name, region) \in {COL_REGION, COL_DATA_SOURCE}

\* Every value of every column of df with this label is the string s.
AllRows(df, label, s) ==
    \A i \in DOMAIN df :
        df[i].name = label => \A r \in DOMAIN df[i].vals : df[i].vals[r] = StrV(s)

TRIP_DURATION == <<"t","r","i","p","_","d","u","r","a","t","i","o","n">>
RawStartStationId == <<"S","t","a","r","t"," ","S","t","a","t","i","o","n"," ","I","D">>

Uncoercible(v) == v.kind = "str" /\ ~IsDateText(v.s)

\* The dataset of the call as it is when the loop of line 370 begins.
BeforeCoercion ==
    region_transform(rename_columns(tr_df, schema_dict, tr_md.region), tr_md.region)

\* C13: temporal coercion is non-destructive on failure.  When a column
\* whose canonical name contains a temporal keyword holds a value that
\* cannot be coerced to a timestamp, transform does not raise and returns the
\* column with the values it had before the coercion attempt.
C13_CoercionNonDestructive ==
    (tr_out.called /\ BeforeCoercion.exc = "none") =>
        /\ tr_out.exc = "none"
        /\ \A i \in DOMAIN BeforeCoercion.df :
               (/\ IsTimeColumn(BeforeCoercion.df[i].name)
                /\ \E r \in DOMAIN BeforeCoercion.df[i].vals :
                       Uncoercible(BeforeCoercion.df[i].vals[r])) =>
                   tr_out.df[i].vals = BeforeCoercion.df[i].vals

\* Lines 166-176: the source_key under which update records the file of the
\* call.
RecordedSourceKey ==
    source_key_of(tr_md.region,
                  IF Truthy(tr_md.year) THEN tr_md.year ELSE clock.year,
                  tr_md.month)

\* The file was registered (line 51) and then transformed (line 54), and
\* neither call raised.
RegisteredAndTransformed ==
    /\ last_call.called /\ last_call.exc = "none"
    /\ tr_out.called /\ tr_out.exc = "none"

\* C16 as stated: the lineage tag matches the registry source key.  For
\* every file metadata, year or month absent included, the data_source value
\* of every row equals the source_key under which update recorded the file.
C16_LineageMatchesSourceKey ==
    RegisteredAndTransformed =>
        /\ RecordedSourceKey \in Keys(schema_dict.sources)
        /\ HasLabel(tr_out.df, COL_DATA_SOURCE)
        /\ AllRows(tr_out.df, COL_DATA_SOURCE, RecordedSourceKey)

\* C16 amended: the same for every file metadata whose year is present, the
\* month present or absent.
C16_LineageMatchesSourceKeyWithYear ==
    (RegisteredAndTransformed /\ Truthy(tr_md.year)) =>
        /\ RecordedSourceKey \in Keys(schema_dict.sources)
        /\ HasLabel(tr_out.df, COL_DATA_SOURCE)
        /\ AllRows(tr_out.df, COL_DATA_SOURCE, RecordedSourceKey)

\* C16 witness: a file with a year and no month was registered and
\* transformed.
C16_Witness ==
    /\ RegisteredAndTransformed
    /\ Truthy(tr_md.year) /\ ~Truthy(tr_md.month)
    /\ RowCount(tr_out.df) > 0

----------------------------------------------------------------------------
(* SpecPrefix: the Jersey City station-name prefix, run again and again on *)
(* its own output                                                          *)

\* How many times the prefix step is run on one dataset.
MaxApplications == 3

\* Lines 351-359: the prefix step, on both station-name columns.
prefix_step(df) == then_prefix_end_name(prefix_station_name(df, START_STATION_NAME))

StationValues ==
    { StrV(<<"G","r","o","v","e"," ","S","t">>),
      StrV(<<"J","C"," ","-"," ","H","a","m","i","l","t","o","n">>),
      StrV(<<"J","C"," ","-"," ","J","C"," ","-"," ","N","e","w","p","o","r","t">>),
      StrV(<<"J","C"," ","-">>),
      StrV(<<"J","C"," ","-"," ">>),
      StrV(<<"j","c"," ","-"," ","G","r","o","v","e">>),
      StrV(<<" ","J","C"," ","-"," ","L","e","a","d">>),
      StrV(<<>>),
      NaN }

\* One-row datasets with one or both of the station-name columns, after the
\* rename of line 328.
StationFrames ==
    { <<Col(START_STATION_NAME, "object", <<v>>)>> : v \in StationValues } \cup
    { <<Col(END_STATION_NAME, "object", <<v>>), Col(TRIP_DURATION, "int64", <<IntV(300)>>)>> :
          v \in StationValues } \cup
    { <<Col(START_STATION_NAME, "object", <<v>>), Col(END_STATION_NAME, "object", <<w>>)>> :
          v \in StationValues, w \in StationValues }

InitPrefix ==
    /\ st_df \in StationFrames
    /\ st_log = <<st_df>>
    /\ RegIdle /\ NormIdle /\ ExtIdle /\ TrIdle /\ BatchIdle /\ OrchIdle

\* One run of lines 351-359 on the dataset.
Prefix ==
    /\ Len(st_log) <= MaxApplications
    /\ prefix_step(st_df).exc = "none"
    /\ st_df' = prefix_step(st_df).df
    /\ st_log' = Append(st_log, st_df')
    /\ UNCHANGED <<regVars, normVars, extVars, trVars, batchVars, orchVars>>

NextPrefix == Prefix

SpecPrefix == InitPrefix /\ [][NextPrefix]_vars

\* The cells of the station-name columns of a dataset.
StationCells(df) ==
    {<<i, r>> \in (DOMAIN df) \X {1} :
        df[i].name \in {START_STATION_NAME, END_STATION_NAME}}

HasPrefix(v) == StartsWith(AsStr(v), JC_PREFIX)
HasPrefixTwice(v) == StartsWith(AsStr(v), JC_PREFIX \o JC_PREFIX)

\* C12: idempotence of the Jersey City station-name prefix.  Running the
\* prefix step again on its own output changes nothing; a value that begins
\* with 'JC - ' is left as it is; after the step every station name begins
\* with the prefix, and begins with it twice only if it did before the step.
C12_PrefixIdempotent ==
    /\ \A n \in 2..Len(st_log) : n < Len(st_log) => st_log[n + 1] = st_log[n]
    /\ \A n \in 2..Len(st_log) : \A c \in StationCells(st_log[1]) :
           LET before == st_log[n - 1][c[1]].vals[c[2]]
               after  == st_log[n][c[1]].vals[c[2]]
           IN  /\ HasPrefix(before) => after = before
               /\ HasPrefix(after)
               /\ HasPrefixTwice(after) => HasPrefixTwice(before)
               /\ ~HasPrefix(before) => AsStr(after) = JC_PREFIX \o AsStr(before)

\* C12 witness: the step ran twice on a dataset in which it prefixed one
\* station name and found the other already prefixed.
C12_Witness ==
    /\ Len(st_log) >= 3
    /\ \E c, d \in StationCells(st_log[1]) :
           /\ ~HasPrefix(st_log[1][c[1]].vals[c[2]])
           /\ st_log[2][c[1]].vals[c[2]] # st_log[1][c[1]].vals[c[2]]
           /\ HasPrefix(st_log[1][d[1]].vals[d[2]])

----------------------------------------------------------------------------
(* The batch handler of process_citibike_data_lambda: lambda_handler and the *)
(* functions it calls                                                        *)

PROCESSED_DATA_PREFIX == <<"p","r","o","c","e","s","s","e","d","_","d","a","t","a","/">>
RESULT_FILES_PREFIX   == <<"r","e","s","u","l","t","_","f","i","l","e","s","/">>
EXT_CSV     == <<".","c","s","v">>
EXT_CSV_GZ  == <<".","c","s","v",".","g","z">>
EXT_CSV_ZIP == <<".","c","s","v",".","z","i","p">>
EXT_XLSX    == <<".","x","l","s","x">>
EXT_XLS     == <<".","x","l","s">>
EXT_PARQUET == <<".","p","a","r","q","u","e","t">>

NoObject == [exists |-> FALSE, value |-> <<>>]
Object(v) == [exists |-> TRUE, value |-> v]

NoFrame  == [ok |-> FALSE, df |-> <<>>]
Frame(df) == [ok |-> TRUE, df |-> df]

\* Lines 82-96: load_existing_schema.  Whatever goes wrong with the read
\* gives a fresh, empty registry.
load_existing_schema(obj, get_ok, now) ==
    IF obj.exists /\ get_ok THEN obj.value ELSE empty_schema(now)

\* Lines 106 and 126: key.lower().endswith(('.csv', '.csv.gz'))
IsCsvKey(key) == EndsWith(Lower(key), EXT_CSV) \/ EndsWith(Lower(key), EXT_CSV_GZ)

\* The keys under result_files/ that name CSV files, in order.
RECURSIVE ResultCsvKeys(_)
ResultCsvKeys(keys) ==
    IF keys = <<>> THEN <<>>
    ELSE IF StartsWith(Head(keys), RESULT_FILES_PREFIX) /\ IsCsvKey(Head(keys))
         THEN <<Head(keys)>> \o ResultCsvKeys(Tail(keys))
         ELSE ResultCsvKeys(Tail(keys))

\* Lines 98-109: extract_files_from_event
extract_files_from_event(keys) == ResultCsvKeys(keys)

\* Lines 111-129: list_unprocessed_files, on a bucket holding these keys: S3
\* lists the keys with the prefix, the function keeps the CSV ones.
list_unprocessed_files(keys) == ResultCsvKeys(keys)

\* Lines 28-35: files_to_process, or IndexError on event['Records'][0] when
\* the event has an empty Records list.
select_files(ev) ==
    CASE ev.kind = "Records" ->
             IF ev.keys = <<>> THEN [exc |-> "IndexError", files |-> <<>>]
             ELSE [exc |-> "none", files |-> extract_files_from_event(ev.keys)]
      [] ev.kind = "files_to_process" -> [exc |-> "none", files |-> ev.keys]
      [] ev.kind = "scan" -> [exc |-> "none", files |-> list_unprocessed_files(ev.keys)]

\* The position of the last occurrence of character c in s, 0 when none.
LastIndex(s, c) ==
    LET hits == {i \in DOMAIN s : s[i] = c}
    IN  IF hits = {} THEN 0 ELSE CHOOSE i \in hits : \A j \in hits : j <= i

\* os.path.splitext(path)[-1]: from the last dot of the base name on, when
\* that dot is not its first character.
splitext(path) ==
    LET base == basename(path)
        dot  == LastIndex(base, ".")
    IN  IF dot > 1 THEN SubSeq(base, dot, Len(base)) ELSE <<>>

\* Lines 131-162: read_file_to_dataframe.  Every exception is caught and
\* gives None.  os is not bound in the module; pd is a local name of this
\* function (line 149 imports it on the Excel branch), so it is unbound where
\* the CSV branch reads it.
read_file_to_dataframe(obj, key) ==
    IF ~obj.exists THEN NoFrame
    ELSE IF ~NameBound("os") THEN NoFrame
    ELSE IF splitext(Lower(key)) = EXT_CSV \/ EndsWith(Lower(key), EXT_CSV_ZIP)
    THEN NoFrame
    ELSE IF splitext(Lower(key)) \in {EXT_XLSX, EXT_XLS}
    THEN Frame([i \in DOMAIN obj.value |-> [obj.value[i] EXCEPT !.name = Strip(@)]])
    ELSE NoFrame

\* df.empty
IsEmptyFrame(df) == df = <<>> \/ RowCount(df) = 0

\* filename.split('.')[0]
BeforeFirstDot(s) ==
    LET dots == {i \in DOMAIN s : s[i] = "."}
    IN  IF dots = {} THEN s ELSE SubSeq(s, 1, Leftmost(dots) - 1)

\* Lines 470-489: generate_destination_key
generate_destination_key(file_key, file_metadata) ==
    IF ~NameBound("os") THEN [exc |-> "NameError", key |-> <<>>]
    ELSE [exc |-> "none",
          key |-> PROCESSED_DATA_PREFIX \o PyStr(file_metadata.region) \o <<"/">>
                  \o PyStr(file_metadata.year) \o <<"/">>
                  \o (IF Truthy(file_metadata.month)
                      THEN PyStr(file_metadata.month) \o <<"/">> ELSE <<>>)
                  \o BeforeFirstDot(basename(file_key)) \o EXT_PARQUET]

\* Lines 385-401: save_dataframe_to_s3.  to_parquet refuses a dataset with a
\* repeated column name; the upload may fail.
save_dataframe_to_s3(df, key, upload_ok) ==
    IF \E i, j \in DOMAIN df : i # j /\ df[i].name = df[j].name
    THEN [exc |-> "ValueError", key |-> key]
    ELSE IF ~upload_ok THEN [exc |-> "S3Error", key |-> key]
    ELSE [exc |-> "none",
          key |-> IF EndsWith(key, EXT_PARQUET) THEN key
                  ELSE SubSeq(key, 1, LastIndex(key, ".") - 1) \o EXT_PARQUET]

\* The same with the exception of put_object caught and dropped.
save_schema_swallowing(sd, obj, put_ok) ==
    IF put_ok THEN [exc |-> "none", stored |-> Object(sd)]
    ELSE [exc |-> "none", stored |-> obj]

\* Lines 403-411: save_schema_to_s3.  An exception of put_object is not
\* caught.
save_schema_to_s3(sd, obj, put_ok) ==
    IF put_ok THEN [exc |-> "none", stored |-> Object(sd)]
    ELSE [exc |-> "S3Error", stored |-> obj]

\* What one pass of the loop body (lines 38-69) leaves: whether an exception
\* escaped the handler, the step that ended the pass and its exception, the
\* registry, the entry appended to processed_files (if any), and whether
\* update_schema_with_new_columns was called.
Pass(escaped, step, exc, sd, entries, updated) ==
    [escaped |-> escaped, step |-> step, exc |-> exc, schema_dict |-> sd,
     entries |-> entries, updated |-> updated]

\* Lines 58-65
after_destination(k, df, sd, file_key, upload_ok) ==
    IF k.exc # "none" THEN Pass(FALSE, "destination", k.exc, sd, <<>>, TRUE)
    ELSE IF save_dataframe_to_s3(df, k.key, upload_ok).exc # "none"
    THEN Pass(FALSE, "save", save_dataframe_to_s3(df, k.key, upload_ok).exc, sd, <<>>, TRUE)
    ELSE Pass(FALSE, "done", "none", sd,
              <<[file |-> file_key, destination |-> k.key,
                 rows |-> RowCount(df), columns |-> Len(df)]>>, TRUE)

\* Lines 54-57
after_transform(t, sd, file_key, md, upload_ok) ==
    IF t.exc # "none" THEN Pass(FALSE, "transform", t.exc, sd, <<>>, TRUE)
    ELSE after_destination(generate_destination_key(file_key, md), t.df, sd,
                           file_key, upload_ok)

\* Lines 51-54
after_update(u, df, file_key, md, upload_ok) ==
    IF u.exc # "none" THEN Pass(FALSE, "update", u.exc, u.schema_dict, <<>>, TRUE)
    ELSE after_transform(transform_data(df, u.schema_dict, md), u.schema_dict,
                         file_key, md, upload_ok)

\* Lines 47-67
after_read(rd, sd, file_key, md, now, upload_ok) ==
    IF ~rd.ok \/ IsEmptyFrame(rd.df) THEN Pass(FALSE, "read", "none", sd, <<>>, FALSE)
    ELSE after_update(update_schema_with_new_columns(sd, rd.df, md, now), rd.df,
                      file_key, md, upload_ok)

\* Lines 43-69: one pass of the loop.  The metadata extraction of line 43 is
\* outside the try statement.
after_metadata(m, sd, file_key, obj, now, upload_ok) ==
    IF m.exc # "none" THEN Pass(TRUE, "metadata", m.exc, sd, <<>>, FALSE)
    ELSE after_read(read_file_to_dataframe(obj, file_key), sd, file_key, m.value,
                    now, upload_ok)

process_file(sd, file_key, obj, now, upload_ok) ==
    after_metadata(extract_metadata_from_filename(file_key), sd, file_key, obj,
                   now, upload_ok)

----------------------------------------------------------------------------
(* SpecBatch: one invocation of lambda_handler, called by                  *)
(* process_citibike_files of the orchestrator                              *)

\* How many keys an event names.
MaxFiles == 2

KEY_MONTHLY == <<"r","e","s","u","l","t","_","f","i","l","e","s","/","2","0","2","1","0","1","-","c","i","t","i","b","i","k","e","-","t","r","i","p","d","a","t","a","/","2","0","2","1","0","1","-","c","i","t","i","b","i","k","e","-","t","r","i","p","d","a","t","a",".","c","s","v">>
KEY_JC      == <<"r","e","s","u","l","t","_","f","i","l","e","s","/","J","C","-","2","0","2","1","0","1","/","J","C","-","2","0","2","1","0","1","-","c","i","t","i","b","i","k","e","-","t","r","i","p","d","a","t","a",".","x","l","s","x">>
KEY_OTHER   == <<"a","r","c","h","i","v","e","/","n","o","t","e","s",".","t","x","t">>

SampleKeys == {KEY_MONTHLY, KEY_JC, KEY_OTHER}

RECURSIVE KeyLists(_)
KeyLists(n) ==
    IF n = 0 THEN {<<>>}
    ELSE KeyLists(n - 1) \cup
         {Append(l, k) : l \in {x \in KeyLists(n - 1) : Len(x) = n - 1}, k \in SampleKeys}

\* An S3 notification carries at least one record.
Events ==
    [kind : {"files_to_process", "scan"}, keys : KeyLists(MaxFiles)] \cup
    [kind : {"Records"}, keys : KeyLists(MaxFiles) \ {<<>>}]

\* What a data object holds: a table with one row, or a table with none.
SampleBodies ==
    { NoObject,
      Object(<<>>),
      Object(<<Col(RawTripduration, "int64", <<IntV(300)>>),
               Col(RawStarttime, "object", <<StrV(TEXT_DATE)>>)>>) }

\* A registry stored by an earlier batch.
earlier_schema ==
    update_schema_with_new_columns(
        empty_schema([stamp |-> 0]),
        <<Col(RawTripduration, "int64", <<>>)>>, MetaAnnualNyc,
        [year |-> Y2021, stamp |-> 0]).schema_dict

NoResponse == [done |-> FALSE, statusCode |-> 0, exc |-> "none", processed_files |-> <<>>]
NoResult   == [done |-> FALSE, success |-> FALSE, error |-> "none", processed_files |-> <<>>]

InitBatch ==
    /\ pc = "start"
    /\ event \in Events
    /\ stored \in {NoObject, Object(earlier_schema)}
    /\ object_body \in SampleBodies
    /\ files = <<>> /\ idx = 0
    /\ processed_files = <<>>
    /\ steps = <<>> /\ file_log = <<>>
    /\ response = NoResponse
    /\ process_result = NoResult
    /\ schema_dict = EmptyDict
    /\ clock \in {[year |-> y, stamp |-> 0] : y \in NowYears}
    /\ last_call = NoCall
    /\ NormIdle /\ ExtIdle /\ TrIdle /\ PrefixIdle /\ OrchIdle

Step(op, i) == [op |-> op, i |-> i]

\* Lines 21-35: the registry is loaded, then the list of files is chosen.
Start ==
    /\ pc = "start"
    /\ \E get_ok \in BOOLEAN :
           schema_dict' = load_existing_schema(stored, get_ok, clock)
    /\ steps' = Append(steps, Step("load", 0))
    /\ IF select_files(event).exc # "none"
       THEN /\ pc' = "raised"
            /\ response' = [NoResponse EXCEPT !.done = TRUE, !.exc = select_files(event).exc]
            /\ UNCHANGED <<files, idx>>
       ELSE /\ pc' = "loop"
            /\ files' = select_files(event).files
            /\ idx' = 1
            /\ UNCHANGED response
    /\ UNCHANGED <<clock, last_call, event, stored, object_body, processed_files,
                   file_log, process_result, normVars, extVars, trVars, prefixVars, orchVars>>

\* Lines 38-69: the loop body for the next file.
ProcessFile ==
    /\ pc = "loop" /\ idx <= Len(files)
    /\ \E upload_ok \in BOOLEAN :
           LET p == process_file(schema_dict, files[idx], object_body, Tick(clock),
                                 upload_ok)
           IN  /\ schema_dict' = p.schema_dict
               /\ processed_files' = processed_files \o p.entries
               /\ file_log' = Append(file_log,
                      [i |-> idx, file |-> files[idx], step |-> p.step,
                       exc |-> p.exc, escaped |-> p.escaped])
               /\ steps' = steps \o <<Step("file", idx)>>
                           \o (IF p.updated THEN <<Step("update", idx)>> ELSE <<>>)
               /\ IF p.escaped
                  THEN /\ pc' = "raised"
                       /\ response' = [NoResponse EXCEPT !.done = TRUE, !.exc = p.exc]
                       /\ idx' = idx
                  ELSE /\ pc' = "loop"
                       /\ response' = response
                       /\ idx' = idx + 1
    /\ clock' = Tick(clock)
    /\ UNCHANGED <<last_call, event, stored, object_body, files, process_result,
                   normVars, extVars, trVars, prefixVars, orchVars>>

\* Lines 71-80: the registry is saved and the handler returns.
SaveSchema ==
    /\ pc = "loop" /\ idx > Len(files)
    /\ \E put_ok \in BOOLEAN :
           LET sv == save_schema_to_s3(schema_dict, stored, put_ok)
           IN  /\ stored' = sv.stored
               /\ steps' = Append(steps, [op |-> IF put_ok THEN "save" ELSE "save_failed",
                                          i |-> 0])
               /\ IF sv.exc # "none"
                  THEN /\ pc' = "raised"
                       /\ response' = [NoResponse EXCEPT !.done = TRUE, !.exc = sv.exc]
                  ELSE /\ pc' = "returned"
                       /\ response' = [done |-> TRUE, statusCode |-> 200, exc |-> "none",
                                       processed_files |-> processed_files]
    /\ UNCHANGED <<schema_dict, clock, last_call, event, object_body, files, idx,
                   processed_files, file_log, process_result, normVars, extVars, trVars, prefixVars, orchVars>>

\* Lines 235-263 of the orchestrator: process_citibike_files turns the
\* handler's return value, or the exception it raised, into its result.
process_citibike_files(resp) ==
    IF resp.exc # "none"
    THEN [done |-> TRUE, success |-> FALSE, error |-> resp.exc, processed_files |-> <<>>]
    ELSE [done |-> TRUE, success |-> TRUE, error |-> "none",
          processed_files |-> resp.processed_files]

ProcessCitibikeFilesReturns ==
    /\ pc \in {"returned", "raised"}
    /\ ~process_result.done
    /\ process_result' = process_citibike_files(response)
    /\ UNCHANGED <<regVars, pc, event, stored, object_body, files, idx, processed_files,
                   steps, file_log, response, normVars, extVars, trVars, prefixVars, orchVars>>

NextBatch ==
    \/ Start
    \/ ProcessFile
    \/ SaveSchema
    \/ ProcessCitibikeFilesReturns

SpecBatch == InitBatch /\ [][NextBatch]_vars

----------------------------------------------------------------------------
(* Properties of the batch handler *)

Finished == pc \in {"returned", "raised"}

SaveSteps == {n \in DOMAIN steps : steps[n].op \in {"save", "save_failed"}}

SaveFailed == \E n \in DOMAIN steps : steps[n].op = "save_failed"

\* C4: partial-batch success.  An exception raised at a per-file step
\* (metadata extraction, read, registry update, transform, dataset save) does
\* not leave the handler; once the handler has finished, every file of the
\* list was attempted and the registry save was reached.
C4_PartialBatchSuccess ==
    /\ \A n \in DOMAIN file_log : file_log[n].exc # "none" => ~file_log[n].escaped
    /\ (Finished /\ \E n \in DOMAIN file_log : file_log[n].exc # "none") =>
           /\ Len(file_log) = Len(files)
           /\ SaveSteps # {}

\* C5: per-file outcome list.  Once the handler has finished, its result
\* holds a record for every file identifier of the batch, failed ones
\* included.
C5_PerFileOutcomes ==
    Finished =>
        \A i \in DOMAIN files :
            \E n \in DOMAIN response.processed_files :
                response.processed_files[n].file = files[i]

\* C6: a registry save failure is surfaced.  When persisting the registry
\* failed, the handler has not returned a result with statusCode 200: the
\* exception left it, and the result process_citibike_files builds from it
\* has success = false and carries the error.
C6_SaveFailureSurfaced ==
    SaveFailed =>
        /\ pc = "raised"
        /\ response.statusCode # 200
        /\ response.exc = "S3Error"
        /\ process_result.done =>
               /\ ~process_result.success
               /\ process_result.error = "S3Error"

\* C6 witness: the save failed and process_citibike_files has built its
\* result.
C6_Witness == SaveFailed /\ process_result.done

\* How many steps of the history are of one of these kinds.
CountSteps(ops) == Cardinality({n \in DOMAIN steps : steps[n].op \in ops})

\* C7: registry lifecycle ordering.  A save is the last step and comes after
\* every file was attempted; once the handler has finished, the registry was
\* loaded exactly once, as the first step, updated at most once per file, and
\* persisted exactly once.
C7_RegistryLifecycle ==
    /\ \A n \in SaveSteps :
           /\ n = Len(steps)
           /\ \A i \in DOMAIN files : \E k \in 1..(n - 1) : steps[k] = Step("file", i)
    /\ \A i \in DOMAIN files :
           Cardinality({n \in DOMAIN steps : steps[n] = Step("update", i)}) <= 1
    /\ Finished =>
           /\ CountSteps({"load"}) = 1 /\ steps[1].op = "load"
           /\ CountSteps({"save", "save_failed"}) = 1

\* The object of this key is a table with at least one row and one column.
HoldsDataset(key) ==
    /\ object_body.exists /\ ~IsEmptyFrame(object_body.value)
    /\ splitext(Lower(key)) \in {EXT_CSV, EXT_XLSX, EXT_XLS}

\* The earliest file of the batch list that holds a dataset.
EarliestDataset(i) ==
    /\ HoldsDataset(files[i])
    /\ \A j \in 1..(i - 1) : ~HoldsDataset(files[j])

\* The column keys a registry loaded at the start of the batch can hold.
LoadableColumns == Keys(earlier_schema.columns)

----------------------------------------------------------------------------
(* SpecRuns: lambda_handler invoked again and again on the same bucket *)

\* Line 13: the handler is invoked again, with another event, once the
\* invocation before has finished.  Its local names start afresh; the bucket
\* keeps what the invocations before left in it.  The histories and the
\* logical timestamp cover one invocation.
InvokeAgain ==
    /\ pc \in {"returned", "raised"}
    /\ pc' = "start"
    /\ event' \in Events
    /\ files' = <<>> /\ idx' = 0
    /\ processed_files' = <<>>
    /\ steps' = <<>> /\ file_log' = <<>>
    /\ response' = NoResponse
    /\ process_result' = NoResult
    /\ schema_dict' = EmptyDict
    /\ clock' = [clock EXCEPT !.stamp = 0]
    /\ UNCHANGED <<last_call, stored, object_body, normVars, extVars, trVars,
                   prefixVars, orchVars>>

NextRuns ==
    \/ NextBatch
    \/ InvokeAgain

SpecRuns == InitBatch /\ [][NextRuns]_vars

\* C15: the persisted registry is append-only across batch invocations.
\* Whenever an invocation replaces the stored registry, every key of columns,
\* column_mappings and sources of the registry stored before is a key of the
\* registry stored now, also when the invocation could not load the registry.
C15_PersistedAppendOnly ==
    [][(stored.exists /\ stored'.exists) =>
           \A k \in RegistryDicts :
               Keys(DictOf(stored.value, k)) \subseteq Keys(DictOf(stored'.value, k))]_vars

----------------------------------------------------------------------------
(* The orchestrator: lambda_handler of citibike_etl_orchestrator_lambda and *)
(* the stage functions it calls                                             *)

BASE_URL == <<"h","t","t","p","s",":","/","/","s","3",".","a","m","a","z","o","n","a","w","s",".","c","o","m","/","t","r","i","p","d","a","t","a","/">>
ARCHIVE_PREFIX == <<"a","r","c","h","i","v","e","/">>
SCHEMA_KEY == <<"s","c","h","e","m","a","/","c","i","t","i","b","i","k","e","_","c","o","l","u","m","n","s","_","s","c","h","e","m","a",".","j","s","o","n">>
EXT_ZIP == <<".","z","i","p">>

\* The dict a stage function returns, as far as the handler reads it.
NoStage == [present |-> FALSE, success |-> FALSE, zip_key |-> <<>>, csv_keys |-> <<>>]
StageOk(zip_key, csv_keys) ==
    [present |-> TRUE, success |-> TRUE, zip_key |-> zip_key, csv_keys |-> csv_keys]
StageFailed == [present |-> TRUE, success |-> FALSE, zip_key |-> <<>>, csv_keys |-> <<>>]

NoStages == [download |-> NoStage, unzip |-> NoStage, process |-> NoStage, cleanup |-> NoStage]

\* Lines 118-142: the record appended to results.
ResultRecord(url, st, error) ==
    [url |-> url, download |-> st.download, unzip |-> st.unzip,
     process |-> st.process, cleanup |-> st.cleanup, error |-> error]

\* Line 163: url.split('/')[-1]
url_filename(url) == SubSeq(url, LastIndex(url, "/") + 1, Len(url))

\* Lines 158-187: download_citibike_file.  The client is made outside the try
\* statement; inside it the fetch, the upload or the removal of the local
\* file may fail, the last one after the object was uploaded.
download_citibike_file(url, bkt, outcome) ==
    LET s3_key == url_filename(url)
    IN  CASE outcome = "client_error" ->
                 [raised |-> TRUE, result |-> NoStage, bucket |-> bkt]
          [] outcome = "fetch_error" ->
                 [raised |-> FALSE, result |-> StageFailed, bucket |-> bkt]
          [] outcome = "remove_error" ->
                 [raised |-> FALSE, result |-> StageFailed, bucket |-> bkt \cup {s3_key}]
          [] outcome = "ok" ->
                 [raised |-> FALSE, result |-> StageOk(s3_key, <<>>),
                  bucket |-> bkt \cup {s3_key}]

\* Line 208: the members of the archive that are tables, in order.
RECURSIVE tabular_members(_)
tabular_members(names) ==
    IF names = <<>> THEN <<>>
    ELSE IF \E e \in {EXT_CSV, EXT_XLSX, EXT_XLS} : EndsWith(Lower(Head(names)), e)
         THEN <<Head(names)>> \o tabular_members(Tail(names))
         ELSE tabular_members(Tail(names))

\* Lines 189-233: unzip_citibike_file on an archive with these members.  The
\* client and the resource are made outside the try statement.
unzip_citibike_file(zip_key, bkt, names, outcome) ==
    LET zip_basename == Replace(basename(zip_key), EXT_ZIP, <<>>)
        kept     == tabular_members(names)
        csv_keys == [i \in DOMAIN kept |->
                        RESULT_FILES_PREFIX \o zip_basename \o <<"/">> \o kept[i]]
    IN  IF outcome = "client_error"
        THEN [raised |-> TRUE, result |-> NoStage, bucket |-> bkt]
        ELSE IF outcome = "ok" /\ zip_key \in bkt
        THEN [raised |-> FALSE, result |-> StageOk(<<>>, csv_keys),
              bucket |-> bkt \cup {csv_keys[i] : i \in DOMAIN csv_keys}]
        ELSE [raised |-> FALSE, result |-> StageFailed, bucket |-> bkt]

\* Line 251: what lambda_handler of the processing module does with the event
\* {'files_to_process': csv_keys}: it raises at the first file when the
\* metadata extraction raises, else it returns or fails at the registry save.
handler_responses(csv_keys) ==
    IF csv_keys # <<>> /\ extract_metadata_from_filename(csv_keys[1]).exc # "none"
    THEN {[NoResponse EXCEPT !.done = TRUE,
                             !.exc = extract_metadata_from_filename(csv_keys[1]).exc]}
    ELSE {[done |-> TRUE, statusCode |-> 200, exc |-> "none", processed_files |-> <<>>],
          [NoResponse EXCEPT !.done = TRUE, !.exc = "S3Error"]}

\* Line 330
archive_key_of(zip_key) == ARCHIVE_PREFIX \o zip_key

\* Lines 333-337: s3_client.copy_object
copy_object(bkt, source, key, ok) ==
    IF ok /\ source \in bkt THEN [exc |-> "none", bucket |-> bkt \cup {key}]
    ELSE [exc |-> "ClientError", bucket |-> bkt]

\* Lines 340-343: s3_client.delete_object
delete_object(bkt, key, ok) ==
    IF ok THEN [exc |-> "none", bucket |-> bkt \ {key}]
    ELSE [exc |-> "ClientError", bucket |-> bkt]

\* The same with the download result ignored.
after_download_ungated(file_result) == "unzip"

\* Lines 108 and 132-137: unzip follows a successful download only.
after_download(file_result) == IF file_result.success THEN "unzip" ELSE "next"

\* Lines 112 and 125-131: processing follows a successful unzip only.
after_unzip(unzip_result) == IF unzip_result.success THEN "process" ELSE "next"

\* The same with the delete made whatever the copy did.
after_copy_unguarded(c) == [pc |-> "delete", cleanup |-> NoStage]

\* Lines 333-343 and 362-367: an exception of copy_object leaves the try
\* block before delete_object is called and gives success = False.
after_copy(c) ==
    IF c.exc = "none" THEN [pc |-> "delete", cleanup |-> NoStage]
    ELSE [pc |-> "next", cleanup |-> StageFailed]

----------------------------------------------------------------------------
(* SpecOrchestrator: one invocation of the orchestrator with a URL list *)

\* How many URLs the list holds.
MaxUrls == 2

SampleUrls == {BASE_URL \o FILE_2021_ZIP, BASE_URL \o FILE_JC_202101_ZIP}

RECURSIVE UrlLists(_)
UrlLists(n) ==
    IF n = 0 THEN {<<>>}
    ELSE UrlLists(n - 1) \cup
         {Append(l, u) : l \in {x \in UrlLists(n - 1) : Len(x) = n - 1}, u \in SampleUrls}

\* The member names of an archive.
SampleMembers ==
    { <<>>,
      <<<<"R","E","A","D","M","E",".","t","x","t">>,
        <<"t","r","i","p","s",".","c","s","v">>>> }

\* Lines 90-101: the loop is reached with a list that is not empty.
InitOrchestrator ==
    /\ orch_pc = "download"
    /\ urls \in UrlLists(MaxUrls) \ {<<>>}
    /\ trigger_crawler \in BOOLEAN
    /\ url_idx = 1
    /\ stage = NoStages
    /\ results = <<>>
    /\ bucket = {}
    /\ attempts = <<>>
    /\ crawler_calls = 0
    /\ RegIdle /\ NormIdle /\ ExtIdle /\ TrIdle /\ BatchIdle /\ PrefixIdle

Attempt(op, i, success) == [op |-> op, i |-> i, success |-> success]

\* Lines 118-142 and 102: the record of this URL is appended and the loop
\* goes to the next URL, or leaves when there is none.
Appended(record) ==
    /\ results' = Append(results, record)
    /\ url_idx' = url_idx + 1
    /\ stage' = NoStages
    /\ orch_pc' = IF url_idx < Len(urls) THEN "download" ELSE "crawler"

\* Lines 105-108 and 132-142.
Download ==
    /\ orch_pc = "download" /\ url_idx <= Len(urls)
    /\ \E outcome \in {"ok", "fetch_error", "remove_error", "client_error"} :
           LET d == download_citibike_file(urls[url_idx], bucket, outcome)
           IN  /\ bucket' = d.bucket
               /\ attempts' = Append(attempts, Attempt("download", url_idx, d.result.success))
               /\ IF d.raised
                  THEN Appended(ResultRecord(urls[url_idx], NoStages, "ClientError"))
                  ELSE IF after_download(d.result) = "unzip"
                  THEN /\ stage' = [stage EXCEPT !.download = d.result]
                       /\ orch_pc' = "unzip"
                       /\ UNCHANGED <<results, url_idx>>
                  ELSE Appended(ResultRecord(urls[url_idx],
                                    [stage EXCEPT !.download = d.result],
                                    "Failed to download file"))
    /\ UNCHANGED <<urls, trigger_crawler, crawler_calls, regVars, normVars, extVars,
                   trVars, batchVars, prefixVars>>

\* Lines 109-112 and 125-131.
Unzip ==
    /\ orch_pc = "unzip"
    /\ \E outcome \in {"ok", "error", "client_error"}, names \in SampleMembers :
           LET u == unzip_citibike_file(stage.download.zip_key, bucket, names, outcome)
           IN  /\ bucket' = u.bucket
               /\ attempts' = Append(attempts, Attempt("unzip", url_idx, u.result.success))
               /\ IF u.raised
                  THEN Appended(ResultRecord(urls[url_idx], NoStages, "ClientError"))
                  ELSE IF after_unzip(u.result) = "process"
                  THEN /\ stage' = [stage EXCEPT !.unzip = u.result]
                       /\ orch_pc' = "process"
                       /\ UNCHANGED <<results, url_idx>>
                  ELSE Appended(ResultRecord(urls[url_idx],
                                    [stage EXCEPT !.unzip = u.result],
                                    "Failed to unzip file"))
    /\ UNCHANGED <<urls, trigger_crawler, crawler_calls, regVars, normVars, extVars,
                   trVars, batchVars, prefixVars>>

\* Line 113: process_citibike_files never raises; a registry that was saved
\* is an object of the bucket.
Process ==
    /\ orch_pc = "process"
    /\ \E resp \in handler_responses(stage.unzip.csv_keys) :
           LET r == process_citibike_files(resp)
           IN  /\ stage' = [stage EXCEPT !.process =
                                IF r.success THEN StageOk(<<>>, <<>>) ELSE StageFailed]
               /\ bucket' = IF r.success THEN bucket \cup {SCHEMA_KEY} ELSE bucket
               /\ attempts' = Append(attempts, Attempt("process", url_idx, r.success))
    /\ orch_pc' = "copy"
    /\ UNCHANGED <<urls, trigger_crawler, url_idx, results, crawler_calls, regVars,
                   normVars, extVars, trVars, batchVars, prefixVars>>

\* Line 116 and lines 326-337 of cleanup_files: the client is made outside
\* the try statement, then the archive is copied.
CleanupCopy ==
    /\ orch_pc = "copy"
    /\ \E outcome \in {"ok", "error", "client_error"} :
           IF outcome = "client_error"
           THEN /\ attempts' = Append(attempts, Attempt("cleanup", url_idx, FALSE))
                /\ bucket' = bucket
                /\ Appended(ResultRecord(urls[url_idx], NoStages, "ClientError"))
           ELSE LET zip_key == stage.download.zip_key
                    c == copy_object(bucket, zip_key, archive_key_of(zip_key), outcome = "ok")
                IN  /\ attempts' = Append(attempts, Attempt("copy", url_idx, c.exc = "none"))
                    /\ bucket' = c.bucket
                    /\ IF after_copy(c).pc = "delete"
                       THEN /\ orch_pc' = "delete"
                            /\ UNCHANGED <<stage, results, url_idx>>
                       ELSE Appended(ResultRecord(urls[url_idx],
                                         [stage EXCEPT !.cleanup = after_copy(c).cleanup], ""))
    /\ UNCHANGED <<urls, trigger_crawler, crawler_calls, regVars, normVars, extVars,
                   trVars, batchVars, prefixVars>>

\* Lines 340-367 of cleanup_files and lines 118-124: the original is deleted
\* and the record of the URL is appended.
CleanupDelete ==
    /\ orch_pc = "delete"
    /\ \E ok \in BOOLEAN :
           LET d == delete_object(bucket, stage.download.zip_key, ok)
           IN  /\ attempts' = Append(attempts, Attempt("delete", url_idx, d.exc = "none"))
               /\ bucket' = d.bucket
               /\ Appended(ResultRecord(urls[url_idx],
                      [stage EXCEPT !.cleanup =
                           IF d.exc = "none" THEN StageOk(<<>>, <<>>) ELSE StageFailed], ""))
    /\ UNCHANGED <<urls, trigger_crawler, crawler_calls, regVars, normVars, extVars,
                   trVars, batchVars, prefixVars>>

\* Lines 144-156: trigger_glue_crawler catches every exception; the handler
\* returns.
Finish ==
    /\ orch_pc = "crawler"
    /\ crawler_calls' = IF trigger_crawler THEN crawler_calls + 1 ELSE crawler_calls
    /\ orch_pc' = "returned"
    /\ UNCHANGED <<urls, trigger_crawler, url_idx, stage, results, bucket, attempts,
                   regVars, normVars, extVars, trVars, batchVars, prefixVars>>

NextOrchestrator ==
    \/ Download
    \/ Unzip
    \/ Process
    \/ CleanupCopy
    \/ CleanupDelete
    \/ Finish

SpecOrchestrator == InitOrchestrator /\ [][NextOrchestrator]_vars

----------------------------------------------------------------------------
(* Properties of the orchestrator *)

\* Before attempt n, this stage of URL i was called and succeeded.
SucceededBefore(op, i, n) ==
    \E m \in 1..(n - 1) : attempts[m] = Attempt(op, i, TRUE)

\* How many times this stage was called for URL i.
CallsOf(op, i) ==
    Cardinality({n \in DOMAIN attempts : attempts[n].op = op /\ attempts[n].i = i})

\* C17: orchestrator stage gating and accounting.  Every URL handled so far
\* has exactly one result record, in URL order, and was attempted exactly
\* once, whatever failed or raised for the URLs before it; unzip is called
\* only after the download of the same URL succeeded, processing and cleanup
\* only after its unzip succeeded; the crawler is triggered at most once, and
\* only when every URL has its record.
C17_StageGating ==
    /\ Len(results) = url_idx - 1
    /\ \A n \in DOMAIN results : results[n].url = urls[n]
    /\ orch_pc = "returned" => Len(results) = Len(urls)
    /\ \A i \in DOMAIN results : CallsOf("download", i) = 1
    /\ \A n \in DOMAIN attempts :
           /\ attempts[n].op = "unzip" =>
                  SucceededBefore("download", attempts[n].i, n)
           /\ attempts[n].op \in {"process", "cleanup", "copy", "delete"} =>
                  SucceededBefore("unzip", attempts[n].i, n)
           /\ \A m \in 1..(n - 1) : attempts[m].i <= attempts[n].i
    /\ crawler_calls <= 1
    /\ crawler_calls = 1 => (orch_pc = "returned" /\ Len(results) = Len(urls))
    /\ (orch_pc = "returned" /\ trigger_crawler) => crawler_calls = 1

\* C17 witness: the handler returned after a URL that failed or raised and a
\* later URL that went through every stage, and the crawler was triggered.
C17_Witness ==
    /\ orch_pc = "returned" /\ crawler_calls = 1
    /\ \E i, j \in DOMAIN results :
           /\ i < j
           /\ results[i].error # ""
           /\ results[j].error = "" /\ results[j].cleanup.present

\* C18: archive cleanup never loses the source archive.  Once a download has
\* put the zip into the bucket, the zip is at its original key or at its
\* archive key; delete_object is called only after copy_object succeeded; and
\* a failed copy or delete gives a cleanup result with success = false in the
\* record of the URL, not an exception.
C18_ArchiveNeverLost ==
    \A n \in DOMAIN attempts :
        /\ attempts[n] = Attempt("download", attempts[n].i, TRUE) =>
               \/ url_filename(urls[attempts[n].i]) \in bucket
               \/ archive_key_of(url_filename(urls[attempts[n].i])) \in bucket
        /\ attempts[n].op = "delete" => SucceededBefore("copy", attempts[n].i, n)
        /\ (/\ attempts[n].op \in {"copy", "delete"} /\ ~attempts[n].success
            /\ attempts[n].i \in DOMAIN results) =>
               /\ results[attempts[n].i].error = ""
               /\ results[attempts[n].i].cleanup = StageFailed

\* C18 witness: for one URL the copy failed, for another the copy succeeded
\* and the delete failed, and both have their record.
C18_Witness ==
    \E n, m \in DOMAIN attempts :
        /\ attempts[n] = Attempt("copy", attempts[n].i, FALSE)
        /\ attempts[m] = Attempt("delete", attempts[m].i, FALSE)
        /\ attempts[n].i \in DOMAIN results
        /\ attempts[m].i \in DOMAIN results

====
